---- MODULE Spec2Model ----
(***************************************************************************)
(* pLEXtrum (plextrum.h): the rule/action scan engine.                     *)
(*                                                                         *)
(* The engine state is the lexer_t structure.  lexer_next_token is         *)
(* modelled at the granularity of its control flow: entry, snapshot of the *)
(* attempt origin, one step per iteration of the rule loop (matcher and    *)
(* action run inside that step), the test after the rule loop and the      *)
(* EOF/ERROR synthesis.  While a call is in progress (pc # "idle") no      *)
(* other operation is enabled: the library is single threaded.             *)
(* Matchers and actions are caller code; a small family of them is         *)
(* enumerated as the inputs of lexer_add_rule.                             *)
(***************************************************************************)
EXTENDS Integers, Sequences, FiniteSets, TLC

VARIABLES
  source, source_length, position,   \* lexer_t: input management
  line, column, filename,            \* lexer_t: location tracking
  rules, capacity,                   \* lexer_t.rules: items[0..count), capacity
  context, flags,                    \* lexer_t: user context, engine flags
  pc,                                \* control point of lexer_next_token
  token, reset,                      \* locals of lexer_next_token
  start_position, start_line, start_column, i,
  op,                                \* the API call made last, with its arguments
  ret,                               \* what that call returned
  entry,                             \* cursor on entry of that lexer_next_token call
  skipped,                           \* cursor left by the token it discarded last
  won                                \* rule and attempt origin of the match it returned

engine == <<source, source_length, position, line, column, filename,
            rules, capacity, context, flags>>
frame  == <<token, reset, start_position, start_line, start_column, i>>
vars   == <<source, source_length, position, line, column, filename,
           rules, capacity, context, flags, pc, token, reset,
           start_position, start_line, start_column, i, op, ret, entry,
           skipped, won>>

----------------------------------------------------------------------------
(* Bounds of the model *)
MaxLen   == 2      \* longest source buffer over Alphabet
MaxRules == 2      \* most rules registered

(* Program constants *)
DA_INIT_CAP == 16
TOKEN_FLAG_NONE == 0
TOKEN_FLAG_IGNORE == 1
LEXER_FLAG_NONE == 0
LEXER_FLAG_KEEP_IGNORABLE == 1
INTERNAL_TOKEN_EOF == 0
INTERNAL_TOKEN_ERROR == 1

NULL == "NULL"
NL   == "\n"

(* Token kinds of the caller's rules: any values after the reserved ones *)
KIND_WS      == INTERNAL_TOKEN_ERROR + 1
KIND_ID      == INTERNAL_TOKEN_ERROR + 2
KIND_CHAR    == INTERNAL_TOKEN_ERROR + 3
KIND_COMMENT == INTERNAL_TOKEN_ERROR + 4
KIND_EMPTY   == INTERNAL_TOKEN_ERROR + 5

(* f & bit # 0, for bit a power of two *)
HasFlag(f, bit) == (f \div bit) % 2 = 1
(* f | bit *)
SetFlag(f, bit) == IF HasFlag(f, bit) THEN f ELSE f + bit

----------------------------------------------------------------------------
(* Inputs *)
Alphabet == {"a", "#", NL}

RECURSIVE StringsUpTo(_)
StringsUpTo(n) ==
  IF n = 0 THEN {<<>>}
  ELSE LET S == StringsUpTo(n - 1)
       IN  S \cup {Append(s, c) : s \in {t \in S : Len(t) = n - 1}, c \in Alphabet}

(* The three inputs of the documented scenarios *)
Src_sp_sp_x == <<" ", " ", "x">>
Src_a_hash_b == <<"a", "#", "b">>
Src_a_nl_b == <<"a", NL, "b">>
Scenarios == {Src_sp_sp_x, Src_a_hash_b, Src_a_nl_b}

Sources == StringsUpTo(MaxLen) \cup Scenarios
ResetSources == {<<>>, Src_sp_sp_x}
Filenames == {"a.c", "b.c"}
(* the filename given to lexer_create *)
CreateFilenames == {"a.c"}

(* strlen of a NUL-terminated buffer holding s *)
strlen(s) == Len(s)
(* the length argument a caller passes for buffer s: 0 or the byte count *)
LengthArgs(s) == {0, Len(s)}

----------------------------------------------------------------------------
(* Character classification helpers *)
BS == "<BS>"    \* '\b' and '\v' have no TLA+ string escape
VT == "<VT>"
lexer_is_space(c) == c \in {" ", NL, "\t", BS, "\r", VT}
LowerCase == {"a","b","c","d","e","f","g","h","i","j","k","l","m",
              "n","o","p","q","r","s","t","u","v","w","x","y","z"}
UpperCase == {"A","B","C","D","E","F","G","H","I","J","K","L","M",
              "N","O","P","Q","R","S","T","U","V","W","X","Y","Z"}
lexer_is_alpha(c) == c \in LowerCase \/ c \in UpperCase \/ c = "_"

(* A cursor is the triple <<position, line, column>> of the engine *)
Cursor(p, l, c) == [position |-> p, line |-> l, column |-> c]
Here == Cursor(position, line, column)

IsEofAt(cur) == cur.position >= source_length
(* variant: the end test off by one *)
lexer_is_eof_strict == position > source_length
lexer_is_eof == position >= source_length

CurrentAt(cur) == IF cur.position >= source_length THEN NULL
                  ELSE source[cur.position + 1]
lexer_current == CurrentAt(Here)

(* variant: no test for the end of the buffer *)
AdvanceAt_Unchecked(cur) ==
  IF cur.position < source_length /\ source[cur.position + 1] = NL
  THEN Cursor(cur.position + 1, cur.line + 1, 1)
  ELSE Cursor(cur.position + 1, cur.line, cur.column + 1)

(* variant: the column keeps counting across a newline *)
AdvanceAt_NoColumnReset(cur) ==
  IF cur.position >= source_length THEN cur
  ELSE IF source[cur.position + 1] = NL
       THEN Cursor(cur.position + 1, cur.line + 1, cur.column + 1)
       ELSE Cursor(cur.position + 1, cur.line, cur.column + 1)

AdvanceAt(cur) ==
  IF cur.position >= source_length THEN cur
  ELSE IF source[cur.position + 1] = NL
       THEN Cursor(cur.position + 1, cur.line + 1, 1)
       ELSE Cursor(cur.position + 1, cur.line, cur.column + 1)

create_token(kind, lexeme, length, ln, col, fname, fl) ==
  [kind |-> kind, lexeme |-> lexeme, length |-> length, filename |-> fname,
   line |-> ln, column |-> col, flags |-> fl]

(* A lexeme pointer: into the source buffer at an offset, the string literal *)
(* "EOF", or the null pointer of a zero-initialised token                     *)
InSource(off) == [base |-> "source", off |-> off]
EofLiteral    == [base |-> "EOF", off |-> 0]
NullLexeme    == [base |-> NULL, off |-> 0]

ZeroToken == create_token(0, NullLexeme, 0, 0, 0, NULL, 0)
----------------------------------------------------------------------------
(* Matchers and actions: caller code behind token_matcher_fn and           *)
(* token_action_fn.  A matcher reads the buffer with lexer_current, moves  *)
(* the cursor with lexer_advance only, writes the working token and        *)
(* reports success or failure; it leaves the cursor wherever it stopped.   *)

RECURSIVE SpaceRun(_)
SpaceRun(cur) ==
  IF lexer_is_space(CurrentAt(cur)) THEN SpaceRun(AdvanceAt(cur)) ELSE cur

RECURSIVE AlphaRun(_)
AlphaRun(cur) ==
  IF lexer_is_alpha(CurrentAt(cur)) THEN AlphaRun(AdvanceAt(cur)) ELSE cur

RECURSIVE UntilHash(_)
UntilHash(cur) ==
  IF ~IsEofAt(cur) /\ CurrentAt(cur) # "#" THEN UntilHash(AdvanceAt(cur)) ELSE cur

Outcome(ok, cur, tok) == [ok |-> ok, cur |-> cur, tok |-> tok]

(* a run of white space; writes kind and length *)
m_space(cur, tok) ==
  LET e == SpaceRun(cur) IN
  IF e.position = cur.position THEN Outcome(FALSE, e, tok)
  ELSE Outcome(TRUE, e, [tok EXCEPT !.kind = KIND_WS,
                                    !.length = e.position - cur.position])

(* an identifier; writes only kind and length *)
m_ident(cur, tok) ==
  LET e == AlphaRun(cur) IN
  IF e.position = cur.position THEN Outcome(FALSE, e, tok)
  ELSE Outcome(TRUE, e, [tok EXCEPT !.kind = KIND_ID,
                                    !.length = e.position - cur.position])

(* any single byte; writes kind, length and flags *)
m_char(cur, tok) ==
  IF IsEofAt(cur) THEN Outcome(FALSE, cur, tok)
  ELSE Outcome(TRUE, AdvanceAt(cur), [tok EXCEPT !.kind = KIND_CHAR, !.length = 1,
                                                 !.flags = TOKEN_FLAG_NONE])

(* a comment #...#: marks the token ignorable and sets its kind as soon as *)
(* the opening # is seen, then scans for the closing #; fails, cursor at   *)
(* the end of the buffer, when the comment is not terminated               *)
m_comment(cur, tok) ==
  IF CurrentAt(cur) # "#" THEN Outcome(FALSE, cur, tok)
  ELSE LET t1 == [tok EXCEPT !.flags = SetFlag(tok.flags, TOKEN_FLAG_IGNORE),
                             !.kind = KIND_COMMENT]
           e  == UntilHash(AdvanceAt(cur))
       IN  IF IsEofAt(e) THEN Outcome(FALSE, e, t1)
           ELSE Outcome(TRUE, AdvanceAt(e),
                        [t1 EXCEPT !.length = e.position + 1 - cur.position])

(* succeeds without consuming anything *)
m_empty(cur, tok) ==
  Outcome(TRUE, cur, [tok EXCEPT !.kind = KIND_EMPTY, !.length = 0])

Matchers == {"m_space", "m_ident", "m_char", "m_comment", "m_empty"}
Actions  == {"a_ignore"}

Matcher(m, cur, tok) ==
  CASE m = "m_space"   -> m_space(cur, tok)
    [] m = "m_ident"   -> m_ident(cur, tok)
    [] m = "m_char"    -> m_char(cur, tok)
    [] m = "m_comment" -> m_comment(cur, tok)
    [] m = "m_empty"   -> m_empty(cur, tok)

(* token->flags |= TOKEN_FLAG_IGNORE *)
a_ignore(cur, tok) ==
  Outcome(TRUE, cur, [tok EXCEPT !.flags = SetFlag(tok.flags, TOKEN_FLAG_IGNORE)])

Action(a, cur, tok) ==
  CASE a = "a_ignore" -> a_ignore(cur, tok)

Rule(m, a) == [matcher |-> m, action |-> a]
R_ws      == Rule("m_space", "a_ignore")
R_id      == Rule("m_ident", NULL)
R_char    == Rule("m_char", NULL)
R_comment == Rule("m_comment", NULL)
R_empty   == Rule("m_empty", NULL)
R_skip    == Rule("m_empty", "a_ignore")
RuleSet   == {R_ws, R_id, R_char, R_comment, R_empty, R_skip}

(* One iteration of the rule loop on rule r from attempt origin o with     *)
(* working token tok: the token is stamped with the origin, the matcher    *)
(* runs, and on success the action, if any, runs after it                  *)
Stamp(tok, o) == [tok EXCEPT !.line = o.line, !.column = o.column,
                             !.lexeme = InSource(o.position)]

(* variant: the token stamped after the matcher ran, with the cursor it left *)
Attempt_StampAfter(r, cur, o, tok) ==
  LET m == Matcher(r.matcher, cur, Stamp(tok, o))
      s == IF m.ok THEN [m EXCEPT !.tok = Stamp(m.tok, m.cur)] ELSE m
  IN  IF s.ok /\ r.action # NULL THEN Action(r.action, s.cur, s.tok) ELSE s

Attempt(r, cur, o, tok) ==
  LET m == Matcher(r.matcher, cur, Stamp(tok, o)) IN
  IF m.ok /\ r.action # NULL THEN Action(r.action, m.cur, m.tok) ELSE m

(* variant: the engine flag not consulted *)
Discards_NoKeep(tok, lxflags) == HasFlag(tok.flags, TOKEN_FLAG_IGNORE)

(* token.flags & TOKEN_FLAG_IGNORE && !(lexer->flags & LEXER_FLAG_KEEP_IGNORABLE) *)
Discards(tok, lxflags) ==
  HasFlag(tok.flags, TOKEN_FLAG_IGNORE) /\ ~HasFlag(lxflags, LEXER_FLAG_KEEP_IGNORABLE)
----------------------------------------------------------------------------
(* The call interface: which call was made, with which arguments, and what *)
(* it returned                                                             *)
Call(name) == [name |-> name, lexer |-> TRUE, present |-> FALSE, source |-> <<>>,
               length |-> 0, filename |-> NULL, matcher |-> NULL, action |-> NULL,
               from |-> position]

Returned(type, tok, b) == [type |-> type, token |-> tok, bool |-> b]
Pending     == Returned("pending", ZeroToken, FALSE)
Void        == Returned("void", ZeroToken, FALSE)
Bool(b)     == Returned("bool", ZeroToken, b)
Tok(t)      == Returned("token", t, FALSE)
NewLexer    == Returned("lexer", ZeroToken, FALSE)

NoCursor == Cursor(0, 0, 0)
NoWin    == [rule |-> -1, origin |-> NoCursor]

(* the locals of lexer_next_token outside a call *)
NoFrame ==
  /\ token' = ZeroToken
  /\ reset' = FALSE
  /\ start_position' = 0
  /\ start_line' = 0
  /\ start_column' = 0
  /\ i' = 0

NoCall == entry' = NoCursor /\ skipped' = NoCursor /\ won' = NoWin

(* length == 0 ? strlen(source) : length *)
BufferLength(src, length) == IF length = 0 THEN strlen(src) ELSE length

----------------------------------------------------------------------------
(* lexer_create(source, length, filename, flags) with a present source *)
Init ==
  \E src \in Sources, fname \in CreateFilenames,
     fl \in {LEXER_FLAG_NONE, LEXER_FLAG_KEEP_IGNORABLE} :
    \E length \in LengthArgs(src) :
      /\ source = src
      /\ source_length = BufferLength(src, length)
      /\ position = 0
      /\ filename = fname
      /\ line = 1
      /\ column = 1
      /\ rules = <<>>
      /\ capacity = 0
      /\ context = NULL
      /\ flags = fl
      /\ pc = "idle"
      /\ token = ZeroToken
      /\ reset = FALSE
      /\ start_position = 0
      /\ start_line = 0
      /\ start_column = 0
      /\ i = 0
      /\ op = [Call("lexer_create") EXCEPT !.from = 0, !.present = TRUE, !.source = src,
                                          !.length = length, !.filename = fname]
      /\ ret = NewLexer
      /\ entry = NoCursor
      /\ skipped = NoCursor
      /\ won = NoWin

(* da_append: the capacity after appending to an array of count items *)
GrownCapacity(count, cap) ==
  IF count >= cap THEN (IF cap = 0 THEN DA_INIT_CAP ELSE cap * 2) ELSE cap

(* variant: the new item stored in front *)
da_append_front(items, item) == <<item>> \o items
da_append(items, item) == Append(items, item)

(* lexer_add_rule(lexer, matcher, action) *)
lexer_add_rule(lx, m, a) ==
  /\ pc = "idle"
  /\ op' = [Call("lexer_add_rule") EXCEPT !.lexer = lx, !.matcher = m, !.action = a]
  /\ IF ~lx \/ m = NULL
     THEN /\ ret' = Bool(FALSE)
          /\ UNCHANGED <<rules, capacity>>
     ELSE /\ Len(rules) < MaxRules
          /\ rules' = da_append(rules, Rule(m, a))
          /\ capacity' = GrownCapacity(Len(rules), capacity)
          /\ ret' = Bool(TRUE)
  /\ NoCall
  /\ UNCHANGED <<source, source_length, position, line, column, filename,
                 context, flags, pc, frame>>

(* variant: line and column survive the reset *)
lexer_reset_KeepsLocation(lx, present, src, length, fname) ==
  /\ pc = "idle"
  /\ op' = [Call("lexer_reset") EXCEPT !.lexer = lx, !.present = present,
                                      !.source = src, !.length = length,
                                      !.filename = fname]
  /\ ret' = Void
  /\ IF ~lx \/ ~present
     THEN UNCHANGED <<source, source_length, position, filename>>
     ELSE /\ source' = src
          /\ source_length' = BufferLength(src, length)
          /\ position' = 0
          /\ filename' = fname
  /\ NoCall
  /\ UNCHANGED <<line, column, rules, capacity, context, flags, pc, frame>>

(* lexer_reset(lexer, source, length, filename); present = (source != NULL) *)
lexer_reset(lx, present, src, length, fname) ==
  /\ pc = "idle"
  /\ op' = [Call("lexer_reset") EXCEPT !.lexer = lx, !.present = present,
                                      !.source = src, !.length = length,
                                      !.filename = fname]
  /\ ret' = Void
  /\ IF ~lx \/ ~present
     THEN UNCHANGED <<source, source_length, position, filename, line, column>>
     ELSE /\ source' = src
          /\ source_length' = BufferLength(src, length)
          /\ position' = 0
          /\ filename' = fname
          /\ line' = 1
          /\ column' = 1
  /\ NoCall
  /\ UNCHANGED <<rules, capacity, context, flags, pc, frame>>

(* lexer_advance(lexer), called by the caller between two tokens *)
lexer_advance ==
  /\ pc = "idle"
  /\ op' = Call("lexer_advance")
  /\ ret' = Void
  /\ position' = AdvanceAt(Here).position
  /\ line' = AdvanceAt(Here).line
  /\ column' = AdvanceAt(Here).column
  /\ NoCall
  /\ UNCHANGED <<source, source_length, filename, rules, capacity, context, flags,
                 pc, frame>>
----------------------------------------------------------------------------
(* lexer_next_token(lexer) *)

EofToken == create_token(INTERNAL_TOKEN_EOF, EofLiteral, 0, line, column, filename, 0)

(* lexer == NULL: the EOF token with line, column and filename all 0 *)
NextTokenAbsent ==
  /\ pc = "idle"
  /\ op' = [Call("lexer_next_token") EXCEPT !.lexer = FALSE]
  /\ ret' = Tok(create_token(INTERNAL_TOKEN_EOF, EofLiteral, 0, 0, 0, NULL, 0))
  /\ NoCall
  /\ UNCHANGED <<engine, pc, frame>>

(* already at EOF on entry *)
NextTokenAtEof ==
  /\ pc = "idle"
  /\ lexer_is_eof
  /\ op' = Call("lexer_next_token")
  /\ ret' = Tok(EofToken)
  /\ entry' = Here
  /\ skipped' = NoCursor
  /\ won' = NoWin
  /\ UNCHANGED <<engine, pc, frame>>

(* token_t token = {0}; int reset = false; *)
NextTokenBegin ==
  /\ pc = "idle"
  /\ ~lexer_is_eof
  /\ op' = Call("lexer_next_token")
  /\ ret' = Pending
  /\ entry' = Here
  /\ skipped' = NoCursor
  /\ won' = NoWin
  /\ token' = ZeroToken
  /\ reset' = FALSE
  /\ pc' = "outer"
  /\ UNCHANGED <<engine, start_position, start_line, start_column, i>>

(* top of while (true): save the starting position of the attempt *)
Snapshot ==
  /\ pc = "outer"
  /\ start_position' = position
  /\ start_line' = line
  /\ start_column' = column
  /\ i' = 0
  /\ pc' = "for"
  /\ UNCHANGED <<engine, token, reset, op, ret, entry, skipped, won>>

Origin == Cursor(start_position, start_line, start_column)
(* if (reset) i = 0; *)
RuleIndex == IF reset THEN 0 ELSE i
(* variant: the table walked from its last rule to its first *)
Trial_Reversed == Attempt(rules[Len(rules) - RuleIndex], Here, Origin, token)
Trial == Attempt(rules[RuleIndex + 1], Here, Origin, token)

(* variant: no restore after a failed matcher *)
RuleFailed_NoRestore ==
  /\ pc = "for"
  /\ i < Len(rules)
  /\ ~Trial.ok
  /\ position' = Trial.cur.position
  /\ line' = Trial.cur.line
  /\ column' = Trial.cur.column
  /\ token' = Trial.tok
  /\ i' = RuleIndex + 1
  /\ UNCHANGED <<source, source_length, filename, rules, capacity, context, flags,
                 pc, reset, start_position, start_line, start_column,
                 op, ret, entry, skipped, won>>

(* the matcher reported failure: restore the position, next rule *)
RuleFailed ==
  /\ pc = "for"
  /\ i < Len(rules)
  /\ ~Trial.ok
  /\ position' = start_position
  /\ line' = start_line
  /\ column' = start_column
  /\ token' = Trial.tok
  /\ i' = RuleIndex + 1
  /\ UNCHANGED <<source, source_length, filename, rules, capacity, context, flags,
                 pc, reset, start_position, start_line, start_column,
                 op, ret, entry, skipped, won>>

(* variant: continue with the next rule instead of break *)
RuleIgnored_Continue ==
  /\ pc = "for"
  /\ i < Len(rules)
  /\ Trial.ok
  /\ Discards(Trial.tok, flags)
  /\ position' = Trial.cur.position
  /\ line' = Trial.cur.line
  /\ column' = Trial.cur.column
  /\ token' = Trial.tok
  /\ i' = RuleIndex + 1
  /\ skipped' = Trial.cur
  /\ UNCHANGED <<source, source_length, filename, rules, capacity, context, flags,
                 pc, reset, start_position, start_line, start_column,
                 op, ret, entry, won>>

(* the matcher succeeded and the token is ignorable: reset = true; break *)
RuleIgnored ==
  /\ pc = "for"
  /\ i < Len(rules)
  /\ Trial.ok
  /\ Discards(Trial.tok, flags)
  /\ position' = Trial.cur.position
  /\ line' = Trial.cur.line
  /\ column' = Trial.cur.column
  /\ token' = Trial.tok
  /\ i' = RuleIndex
  /\ reset' = TRUE
  /\ skipped' = Trial.cur
  /\ pc' = "after"
  /\ UNCHANGED <<source, source_length, filename, rules, capacity, context, flags,
                 start_position, start_line, start_column, op, ret, entry, won>>

(* the matcher succeeded: return a copy of the token *)
RuleReturned ==
  /\ pc = "for"
  /\ i < Len(rules)
  /\ Trial.ok
  /\ ~Discards(Trial.tok, flags)
  /\ position' = Trial.cur.position
  /\ line' = Trial.cur.line
  /\ column' = Trial.cur.column
  /\ ret' = Tok(create_token(Trial.tok.kind, Trial.tok.lexeme, Trial.tok.length,
                             Trial.tok.line, Trial.tok.column,
                             Trial.tok.filename, Trial.tok.flags))
  /\ won' = [rule |-> RuleIndex, origin |-> Origin]
  /\ pc' = "idle"
  /\ NoFrame
  /\ UNCHANGED <<source, source_length, filename, rules, capacity, context, flags,
                 op, entry, skipped>>

(* i < lexer->rules.count is false *)
RulesExhausted ==
  /\ pc = "for"
  /\ i >= Len(rules)
  /\ pc' = "after"
  /\ UNCHANGED <<engine, frame, op, ret, entry, skipped, won>>

(* if (!reset) break; *)
LeaveLoop ==
  /\ pc = "after"
  /\ ~reset
  /\ pc' = "nomatch"
  /\ UNCHANGED <<engine, frame, op, ret, entry, skipped, won>>

(* variant: a pass that discarded a token without moving the cursor ends the loop *)
Restart_StopsWithoutProgress ==
  /\ pc = "after"
  /\ reset
  /\ reset' = FALSE
  /\ pc' = (IF position = start_position THEN "nomatch" ELSE "outer")
  /\ UNCHANGED <<engine, token, start_position, start_line, start_column, i,
                 op, ret, entry, skipped, won>>

(* variant: reset still set when the loop goes around *)
Restart_KeepsReset ==
  /\ pc = "after"
  /\ reset
  /\ pc' = "outer"
  /\ UNCHANGED <<engine, frame, op, ret, entry, skipped, won>>

(* reset = false; and around the while loop again *)
Restart ==
  /\ pc = "after"
  /\ reset
  /\ reset' = FALSE
  /\ pc' = "outer"
  /\ UNCHANGED <<engine, token, start_position, start_line, start_column, i,
                 op, ret, entry, skipped, won>>

(* variant: the ERROR token also at the end of the buffer *)
NoMatchEof_Error ==
  /\ pc = "nomatch"
  /\ lexer_is_eof
  /\ ret' = Tok(create_token(INTERNAL_TOKEN_ERROR, InSource(position), 1,
                             line, column, filename, 0))
  /\ pc' = "idle"
  /\ NoFrame
  /\ UNCHANGED <<engine, op, entry, skipped, won>>

(* no rule matched and the cursor is at the end of the buffer *)
NoMatchEof ==
  /\ pc = "nomatch"
  /\ lexer_is_eof
  /\ ret' = Tok(EofToken)
  /\ pc' = "idle"
  /\ NoFrame
  /\ UNCHANGED <<engine, op, entry, skipped, won>>

(* variant: the ERROR token returned without lexer_advance *)
NoMatchError_Stall ==
  /\ pc = "nomatch"
  /\ ~lexer_is_eof
  /\ ret' = Tok(create_token(INTERNAL_TOKEN_ERROR, InSource(position), 1,
                             line, column, filename, 0))
  /\ pc' = "idle"
  /\ NoFrame
  /\ UNCHANGED <<engine, op, entry, skipped, won>>

(* no rule matched: the ERROR token for one byte, then lexer_advance *)
NoMatchError ==
  /\ pc = "nomatch"
  /\ ~lexer_is_eof
  /\ ret' = Tok(create_token(INTERNAL_TOKEN_ERROR, InSource(position), 1,
                             line, column, filename, 0))
  /\ position' = AdvanceAt(Here).position
  /\ line' = AdvanceAt(Here).line
  /\ column' = AdvanceAt(Here).column
  /\ pc' = "idle"
  /\ NoFrame
  /\ UNCHANGED <<source, source_length, filename, rules, capacity, context, flags,
                 op, entry, skipped, won>>

----------------------------------------------------------------------------
(* The caller registers each rule of RuleSet at most once *)
Registered == {rules[k] : k \in 1..Len(rules)}

AddRule ==
  \/ \E r \in RuleSet \ Registered : lexer_add_rule(TRUE, r.matcher, r.action)
  \/ lexer_add_rule(TRUE, NULL, "a_ignore")
  \/ lexer_add_rule(FALSE, "m_ident", NULL)

Reset ==
  \/ \E src \in ResetSources, fname \in Filenames :
       \E length \in LengthArgs(src) : lexer_reset(TRUE, TRUE, src, length, fname)
  \/ lexer_reset(TRUE, FALSE, <<>>, 0, "b.c")

Next ==
  \/ AddRule
  \/ Reset
  \/ lexer_advance
  \/ NextTokenAbsent
  \/ NextTokenAtEof
  \/ NextTokenBegin
  \/ Snapshot
  \/ RuleFailed
  \/ RuleIgnored
  \/ RuleReturned
  \/ RulesExhausted
  \/ LeaveLoop
  \/ Restart
  \/ NoMatchEof
  \/ NoMatchError

Spec == Init /\ [][Next]_vars
----------------------------------------------------------------------------
(* Properties *)

Idle      == pc = "idle"
AtEnd     == position >= source_length
Keep      == HasFlag(flags, LEXER_FLAG_KEEP_IGNORABLE)
(* lexer_next_token(lexer) on the engine has returned a token *)
GotToken  == /\ pc = "idle"
             /\ op.name = "lexer_next_token"
             /\ op.lexer
             /\ ret.type = "token"
(* ... and the token is the one of a rule that matched *)
GotMatch  == GotToken /\ won.rule >= 0
(* a step that calls lexer_next_token on the engine *)
CallsNextToken == pc = "idle" /\ op'.name = "lexer_next_token" /\ op'.lexer
(* the rule loop is about to run the matcher of rule i *)
AtRule    == pc = "for" /\ i < Len(rules)
(* does the matcher of the k-th rule succeed from cursor cur ? *)
Succeeds(k, cur) == Matcher(rules[k].matcher, cur, ZeroToken).ok
(* the cursor the matcher of the k-th rule leaves when started at cur *)
Leaves(k, cur) == Matcher(rules[k].matcher, cur, ZeroToken).cur

(* token t has this kind, start offset, length, line, column and flags *)
Is(t, kind, off, length, ln, col, fl) ==
  /\ t.kind = kind
  /\ t.lexeme = InSource(off)
  /\ t.length = length
  /\ t.line = ln
  /\ t.column = col
  /\ t.flags = fl

(* C1: once the cursor is at or past source_length every call of           *)
(* lexer_next_token returns, in that very step and so without running any  *)
(* matcher or action, the EOF token stamped with the engine's line, column *)
(* and filename, leaving position, line and column alone; and the cursor   *)
(* stays at the end until lexer_reset is called.                           *)
C1_EofStep ==
  /\ (AtEnd /\ CallsNextToken) =>
        /\ pc' = "idle"
        /\ ret' = Tok(create_token(INTERNAL_TOKEN_EOF, EofLiteral, 0,
                                   line, column, filename, 0))
        /\ position' = position
        /\ line' = line
        /\ column' = column
        /\ token' = token
  /\ (AtEnd /\ ~(pc = "idle" /\ op'.name = "lexer_reset")) => AtEnd'
C1_EofIdempotent == [][C1_EofStep]_vars
C1_Witness ==
  /\ GotToken
  /\ entry.position >= source_length
  /\ source_length > 0
  /\ Len(rules) > 0
  /\ ret.token.kind = INTERNAL_TOKEN_EOF

(* C2: the token of a matched rule carries the line and column of the      *)
(* attempt origin of the pass in which the rule matched and its lexeme     *)
(* starts there; that origin is the cursor on entry of the call, or, when  *)
(* tokens were discarded earlier in the call, the cursor left after the    *)
(* last discarded one.                                                     *)
C2_TokenAtOrigin ==
  GotMatch =>
    /\ ret.token.line = won.origin.line
    /\ ret.token.column = won.origin.column
    /\ ret.token.lexeme = InSource(won.origin.position)
    /\ won.origin = (IF skipped = NoCursor THEN entry ELSE skipped)
C2_Witness ==
  /\ GotMatch
  /\ skipped # NoCursor
  /\ skipped.position > entry.position
  /\ position > won.origin.position
  /\ ret.token.column = skipped.column

(* C3: whenever a matcher is about to run, and when the rule loop has been *)
(* left without a match, the cursor is exactly the attempt origin: a       *)
(* failed matcher's advances, newlines included, have been undone.         *)
C3_BacktrackExact ==
  (pc = "for" \/ (pc = "after" /\ ~reset) \/ pc = "nomatch") => Here = Origin
C3_Witness ==
  /\ AtRule
  /\ i >= 1
  /\ ~Succeeds(i, Origin)
  /\ Leaves(i, Origin).line > Origin.line
  /\ Leaves(i, Origin).position >= Origin.position + 2

(* C4: when the matcher of rule i is about to run, every rule before it    *)
(* fails at the attempt origin; so the rule whose token is returned or     *)
(* discarded is the first one that succeeds there, no rule after it runs   *)
(* at that origin, and the returned kind, length and consumption are the   *)
(* winning rule's.                                                         *)
FirstSucceeding(o) ==
  CHOOSE k \in 1..Len(rules) :
    Succeeds(k, o) /\ \A j \in 1..(k - 1) : ~Succeeds(j, o)
C4_Earlier == AtRule => \A j \in 1..i : ~Succeeds(j, Origin)
C4_Winner ==
  GotMatch =>
    /\ \E k \in 1..Len(rules) : Succeeds(k, won.origin)
    /\ won.rule + 1 = FirstSucceeding(won.origin)
    /\ LET m == Matcher(rules[won.rule + 1].matcher, won.origin, ZeroToken)
       IN  /\ ret.token.kind = m.tok.kind
           /\ ret.token.length = m.tok.length
           /\ Here = m.cur
C4_FirstMatchWins == C4_Earlier /\ C4_Winner
C4_Witness ==
  /\ GotMatch
  /\ Len(rules) = 2
  /\ won.rule = 0
  /\ Succeeds(2, won.origin)
  /\ Leaves(2, won.origin).position > position

(* C5: a matched token carrying the Ignore flag after its action is        *)
(* returned exactly when the engine keeps ignorable tokens; without the    *)
(* engine flag no returned token carries Ignore; with it, the white space  *)
(* rule and the identifier rule on two spaces and x give the white space   *)
(* token and then x.                                                       *)
C5_Step ==
  (AtRule /\ Trial.ok /\ HasFlag(Trial.tok.flags, TOKEN_FLAG_IGNORE)) =>
     ((pc' = "idle" /\ ret' = Tok(Trial.tok)) <=> Keep)
C5_Returned ==
  (GotToken /\ ~Keep) => ~HasFlag(ret.token.flags, TOKEN_FLAG_IGNORE)
C5_Scenario ==
  (GotToken /\ Keep /\ source = Src_sp_sp_x /\ rules = <<R_ws, R_id>>) =>
     /\ entry.position = 0 =>
          /\ Is(ret.token, KIND_WS, 0, 2, 1, 1, TOKEN_FLAG_IGNORE)
          /\ position = 2
     /\ entry.position = 2 =>
          /\ Is(ret.token, KIND_ID, 2, 1, 1, 3, TOKEN_FLAG_NONE)
          /\ position = 3
     /\ entry.position = 3 => ret.token.kind = INTERNAL_TOKEN_EOF
C5_KeepIgnorable == [](C5_Returned /\ C5_Scenario) /\ [][C5_Step]_vars
C5_Witness ==
  /\ GotMatch
  /\ Keep
  /\ source = Src_sp_sp_x
  /\ rules = <<R_ws, R_id>>
  /\ entry.position = 0
  /\ HasFlag(ret.token.flags, TOKEN_FLAG_IGNORE)
(* C6: without the engine flag, the white space rule (Ignore) and the      *)
(* identifier rule (kind and length only) on two spaces and x: the first   *)
(* call returns the token of x at line 1, column 3.                        *)
C6_SkipThenToken ==
  (GotToken /\ ~Keep /\ source = Src_sp_sp_x /\ rules = <<R_ws, R_id>>
            /\ entry.position = 0) =>
     /\ ret.token.kind = KIND_ID
     /\ ret.token.lexeme = InSource(2)
     /\ ret.token.length = 1
     /\ ret.token.line = 1
     /\ ret.token.column = 3

(* C7: when the rule loop ends without a match below the end of the        *)
(* buffer the call returns the ERROR token for the one byte at the cursor, *)
(* with the cursor's line and column, and the cursor ends one byte         *)
(* further, as lexer_advance moves it; a token never starts before the     *)
(* cursor the call began at; a#b with the identifier rule gives a, ERROR   *)
(* for # at offset 1 (line 1, column 2), b.                                *)
C7_Step ==
  (pc = "nomatch" /\ ~AtEnd) =>
     /\ pc' = "idle"
     /\ ret' = Tok(create_token(INTERNAL_TOKEN_ERROR, InSource(position), 1,
                                line, column, filename, 0))
     /\ position' = position + 1
     /\ line' = (IF source[position + 1] = NL THEN line + 1 ELSE line)
     /\ column' = (IF source[position + 1] = NL THEN 1 ELSE column + 1)
C7_NoRuleMatches ==
  pc = "nomatch" => \A k \in 1..Len(rules) : ~Succeeds(k, Here)
C7_Returned ==
  (GotToken /\ won.rule = -1 /\ entry.position < source_length) =>
     LET o == IF skipped = NoCursor THEN entry ELSE skipped IN
     /\ \A k \in 1..Len(rules) : ~Succeeds(k, o)
     /\ o.position < source_length =>
          /\ Is(ret.token, INTERNAL_TOKEN_ERROR, o.position, 1, o.line, o.column,
                TOKEN_FLAG_NONE)
          /\ position = o.position + 1
C7_Forward ==
  (GotToken /\ ret.token.lexeme.base = "source") =>
     /\ ret.token.lexeme.off >= entry.position
     /\ position >= ret.token.lexeme.off
C7_Scenario ==
  (GotToken /\ source = Src_a_hash_b /\ rules = <<R_id>>) =>
     /\ entry.position = 0 =>
          /\ Is(ret.token, KIND_ID, 0, 1, 1, 1, TOKEN_FLAG_NONE)
          /\ position = 1
     /\ entry.position = 1 =>
          /\ Is(ret.token, INTERNAL_TOKEN_ERROR, 1, 1, 1, 2, TOKEN_FLAG_NONE)
          /\ position = 2
     /\ entry.position = 2 =>
          /\ Is(ret.token, KIND_ID, 2, 1, 1, 3, TOKEN_FLAG_NONE)
          /\ position = 3
C7_NoMatchRecovery ==
  /\ [](C7_NoRuleMatches /\ C7_Returned /\ C7_Forward /\ C7_Scenario)
  /\ [][C7_Step]_vars
C7_Witness ==
  /\ GotToken
  /\ source = Src_a_hash_b
  /\ rules = <<R_id>>
  /\ entry.position = 1
  /\ ret.token.kind = INTERNAL_TOKEN_ERROR
  /\ position = 2

(* C8: in every state the engine's line is 1 plus the number of newlines   *)
(* before the cursor and its column 1 plus the number of bytes after the   *)
(* last of them; a returned token that starts in the buffer carries the    *)
(* line and column so computed for its start; a, newline, b with the       *)
(* single character rule puts a at (1, 1) and b at (2, 1).                 *)
NewlinesBefore(p) == Cardinality({k \in 1..p : source[k] = NL})
LastNewlineBefore(p) ==
  LET S == {k \in 1..p : source[k] = NL} IN
  IF S = {} THEN 0 ELSE CHOOSE k \in S : \A j \in S : j <= k
LineAt(p)   == 1 + NewlinesBefore(p)
ColumnAt(p) == 1 + (p - LastNewlineBefore(p))
C8_Cursor ==
  /\ position <= source_length
  /\ line = LineAt(position)
  /\ column = ColumnAt(position)
C8_Tokens ==
  (GotToken /\ ret.token.lexeme.base = "source") =>
     /\ ret.token.line = LineAt(ret.token.lexeme.off)
     /\ ret.token.column = ColumnAt(ret.token.lexeme.off)
C8_Scenario ==
  (GotToken /\ source = Src_a_nl_b /\ rules = <<R_char>>) =>
     /\ entry.position = 0 =>
          (ret.token.lexeme = InSource(0) /\ ret.token.line = 1 /\ ret.token.column = 1)
     /\ entry.position = 2 =>
          (ret.token.lexeme = InSource(2) /\ ret.token.line = 2 /\ ret.token.column = 1)
C8_LineColumn == C8_Cursor /\ C8_Tokens /\ C8_Scenario
C8_Witness ==
  /\ GotMatch
  /\ source = Src_a_nl_b
  /\ rules = <<R_char>>
  /\ entry.position = 2
  /\ ret.token.line = 2
  /\ position = 3

(* C9: lexer_reset with a present source sets position 0, line 1, column 1 *)
(* and binds the given source, length and filename, leaving rules, context *)
(* and engine flags alone; with an absent source it changes nothing.       *)
C9_Step ==
  (pc = "idle" /\ op'.name = "lexer_reset") =>
     /\ pc' = "idle"
     /\ rules' = rules
     /\ capacity' = capacity
     /\ context' = context
     /\ flags' = flags
     /\ IF op'.lexer /\ op'.present
        THEN /\ position' = 0
             /\ line' = 1
             /\ column' = 1
             /\ source' = op'.source
             /\ source_length' = (IF op'.length = 0 THEN Len(op'.source)
                                                    ELSE op'.length)
             /\ filename' = op'.filename
        ELSE UNCHANGED <<source, source_length, position, line, column, filename>>
C9_Reset == [][C9_Step]_vars
C9_Witness ==
  /\ pc = "idle"
  /\ op.name = "lexer_reset"
  /\ op.lexer
  /\ op.present
  /\ op.from > 0
  /\ position = 0
  /\ line = 1
  /\ Len(rules) = 2
  /\ Keep
  /\ Len(source) > 0

(* C10: lexer_add_rule returns false and leaves the table alone exactly    *)
(* when the engine or the matcher is absent; otherwise it returns true and *)
(* the table is the old one with the new rule appended; no other step      *)
(* changes the table.                                                      *)
C10_Step ==
  IF pc = "idle" /\ op'.name = "lexer_add_rule"
  THEN IF ~op'.lexer \/ op'.matcher = NULL
       THEN ret' = Bool(FALSE) /\ rules' = rules
       ELSE /\ ret' = Bool(TRUE)
            /\ Len(rules') = Len(rules) + 1
            /\ rules'[Len(rules')] = [matcher |-> op'.matcher, action |-> op'.action]
            /\ \A k \in 1..Len(rules) : rules'[k] = rules[k]
  ELSE rules' = rules
C10_AddRule == [][C10_Step]_vars
C10_Witness ==
  /\ pc = "idle"
  /\ op.name = "lexer_add_rule"
  /\ ret = Bool(TRUE)
  /\ Len(rules) = 2
  /\ rules[1] # rules[2]
  /\ rules[2] = [matcher |-> op.matcher, action |-> op.action]

(* C11: every token lexer_next_token returns refers into the current       *)
(* buffer: its lexeme starts at an offset of the buffer between 0 and      *)
(* source_length and start + length does not exceed source_length.         *)
C11_LexemeInBuffer ==
  GotToken =>
    /\ ret.token.lexeme.base = "source"
    /\ ret.token.lexeme.off >= 0
    /\ ret.token.lexeme.off <= source_length
    /\ ret.token.lexeme.off + ret.token.length <= source_length


(* C12: with rules whose successful matches all consume at least one byte, *)
(* every step inside a call either returns or lowers a rank that cannot go *)
(* below zero, so the call returns; a call that returns a token other than *)
(* EOF leaves the cursor strictly further than it found it, so the number  *)
(* of calls still needed to see EOF, at most source_length - position + 1, *)
(* drops with each of them; and a call made at the end returns EOF.        *)
CursorAt(p) == Cursor(p, LineAt(p), ColumnAt(p))
Consuming ==
  \A k \in 1..Len(rules), p \in 0..source_length :
     Succeeds(k, CursorAt(p)) => Leaves(k, CursorAt(p)).position > p
RankBase == Len(rules) + 5
Rank ==
  CASE pc = "outer"   -> (source_length - position) * RankBase + (RankBase - 1)
    [] pc = "for"     -> (source_length - start_position) * RankBase + (RankBase - 2 - i)
    [] pc = "after"   -> IF reset
                         THEN (source_length - position) * RankBase + RankBase
                         ELSE (source_length - start_position) * RankBase + 1
    [] pc = "nomatch" -> (source_length - start_position) * RankBase
    [] OTHER          -> 0
CallsLeft(p) == (source_length - p) + 1
C12_Step ==
  (Consuming /\ pc # "idle") => (pc' = "idle" \/ (Rank' < Rank /\ Rank' >= 0))
C12_Returned ==
  (GotToken /\ Consuming) =>
     /\ ret.token.kind # INTERNAL_TOKEN_EOF =>
          /\ position > entry.position
          /\ CallsLeft(position) <= CallsLeft(entry.position) - 1
     /\ CallsLeft(entry.position) <= 1 => ret.token.kind = INTERNAL_TOKEN_EOF
     /\ CallsLeft(position) >= 1
C12_Progress == []C12_Returned /\ [][C12_Step]_vars
C12_Witness ==
  /\ GotToken
  /\ Consuming
  /\ Len(rules) = 2
  /\ skipped # NoCursor
  /\ ret.token.kind = INTERNAL_TOKEN_ERROR
  /\ position > entry.position + 1


----------------------------------------------------------------------------
(* Source inspection: lexer_current and lexer_peek are pure reads, checked *)
(* on their own from every cursor position lexer_advance reaches.  size_t  *)
(* arithmetic is modular; the model keeps the wrap with a narrow word.     *)
SizeBits == 3
SizeMod  == 2 ^ SizeBits
Offsets  == 0..(SizeMod - 1)

(* what lexer_peek(lexer, offset) returns; NULL stands for the byte 0 *)
PeekAt(offset) ==
  LET idx == (position + offset) % SizeMod IN
  IF idx >= source_length THEN NULL ELSE source[idx + 1]

Char(c) == [type |-> "char", token |-> ZeroToken, bool |-> FALSE, char |-> c]

lexer_peek(offset) ==
  /\ pc = "idle"
  /\ op' = [name |-> "lexer_peek", lexer |-> TRUE, offset |-> offset,
            from |-> position]
  /\ ret' = Char(PeekAt(offset))
  /\ NoCall
  /\ UNCHANGED <<engine, pc, frame>>

lexer_current_call ==
  /\ pc = "idle"
  /\ op' = [name |-> "lexer_current", lexer |-> TRUE, offset |-> 0,
            from |-> position]
  /\ ret' = Char(lexer_current)
  /\ NoCall
  /\ UNCHANGED <<engine, pc, frame>>

Peek == \E offset \in Offsets : lexer_peek(offset)

NextInspect ==
  \/ Peek
  \/ lexer_current_call
  \/ lexer_advance

SpecInspect == Init /\ [][NextInspect]_vars

(* C13: for every cursor position and every offset of the machine word,    *)
(* lexer_peek returns the byte at position + offset when that index is in  *)
(* the buffer and the sentinel 0 when position + offset is at or beyond    *)
(* source_length, also when the sum overflows; lexer_current returns the   *)
(* byte at the cursor or the sentinel; neither changes the engine.         *)
C13_PeekInRange ==
  /\ (pc = "idle" /\ op.name = "lexer_peek") =>
        /\ position = op.from
        /\ ret.char = (IF op.from + op.offset >= source_length THEN NULL
                       ELSE source[op.from + op.offset + 1])
  /\ (pc = "idle" /\ op.name = "lexer_current") =>
        /\ position = op.from
        /\ ret.char = (IF op.from >= source_length THEN NULL
                       ELSE source[op.from + 1])


(* C14: when a matched token is discarded the rule loop is left at once,   *)
(* with the cursor where the rule's matcher and action put it; the next    *)
(* pass takes that cursor as its attempt origin and starts at rule 0, so   *)
(* every matcher run after a discard runs from the cursor the last         *)
(* discarded token left; and EOF/ERROR synthesis is reached only after the *)
(* whole table failed at the current origin.                               *)
C14_Step ==
  /\ (AtRule /\ Trial.ok /\ Discards(Trial.tok, flags)) =>
        /\ pc' = "after"
        /\ reset'
        /\ Here' = Trial.cur
        /\ skipped' = Trial.cur
  /\ (pc = "after" /\ reset) =>
        /\ pc' = "outer"
        /\ Here' = Here
  /\ pc = "outer" =>
        /\ pc' = "for"
        /\ i' = 0
        /\ ~reset'
        /\ Origin' = Here
        /\ Here' = Here
C14_State ==
  /\ (pc \in {"outer", "for", "after", "nomatch"} /\ skipped # NoCursor) =>
        (IF pc = "for" \/ (pc = "after" /\ ~reset) \/ pc = "nomatch"
         THEN Origin = skipped /\ Here = skipped
         ELSE Here = skipped)
  /\ pc = "for" => (~reset /\ RuleIndex = i)
  /\ pc = "nomatch" =>
        /\ i = Len(rules)
        /\ \A k \in 1..Len(rules) : ~Succeeds(k, Origin)
C14_RestartProtocol == []C14_State /\ [][C14_Step]_vars
C14_Witness ==
  /\ pc = "nomatch"
  /\ skipped # NoCursor
  /\ Origin = skipped
  /\ skipped.position > entry.position
  /\ position < source_length
  /\ Len(rules) = 2
  /\ Succeeds(1, entry) = FALSE
  /\ Succeeds(2, entry)


(* C15: a call that did not start at the end, whose discarded tokens took  *)
(* the cursor to the end of the buffer and in which no rule then matched,  *)
(* returns the EOF token with the line and column of the end; an ERROR     *)
(* token the engine makes always starts strictly below source_length.      *)
Synthesized == GotToken /\ won.rule = -1
C15_EofAfterSkip ==
  /\ (Synthesized /\ entry.position < source_length /\ skipped # NoCursor
                  /\ skipped.position >= source_length) =>
        /\ ret.token.kind = INTERNAL_TOKEN_EOF
        /\ ret.token.line = LineAt(source_length)
        /\ ret.token.column = ColumnAt(source_length)
        /\ ret.token.length = 0
        /\ Here = skipped
  /\ (Synthesized /\ ret.token.kind = INTERNAL_TOKEN_ERROR) =>
        /\ ret.token.lexeme.base = "source"
        /\ ret.token.lexeme.off < source_length
C15_Witness ==
  /\ Synthesized
  /\ entry.position < source_length
  /\ skipped # NoCursor
  /\ skipped.position = source_length
  /\ Len(rules) > 0
  /\ ret.token.kind = INTERNAL_TOKEN_EOF
  /\ ret.token.line = 2


(* C16: a match that consumes nothing and is not discarded is returned     *)
(* with the cursor where the pass found it (where the call found it, when  *)
(* nothing was discarded before); when the first rule that succeeds at an  *)
(* origin consumes nothing and its token is discarded, the call is in a    *)
(* loop at that origin which no step leaves: it never returns.             *)
PassOrigin == IF pc = "for" THEN Origin ELSE Here
ZeroLoop ==
  /\ pc \in {"outer", "for", "after"}
  /\ pc = "after" => reset
  /\ ~Keep
  /\ HasFlag(token.flags, TOKEN_FLAG_IGNORE)
  /\ \E k \in 1..Len(rules) : Succeeds(k, PassOrigin)
  /\ Leaves(FirstSucceeding(PassOrigin), PassOrigin) = PassOrigin
  /\ pc = "for" => i < FirstSucceeding(PassOrigin)
C16_Step ==
  /\ (AtRule /\ Trial.ok /\ Trial.cur = Here /\ ~Discards(Trial.tok, flags)) =>
        /\ pc' = "idle"
        /\ ret' = Tok(Trial.tok)
        /\ Here' = Here
  /\ (AtRule /\ Trial.ok /\ Trial.cur = Here /\ Discards(Trial.tok, flags)) =>
        ZeroLoop'
  /\ ZeroLoop => ZeroLoop'
C16_Returned ==
  (GotMatch /\ Leaves(won.rule + 1, won.origin) = won.origin) =>
     /\ Here = won.origin
     /\ skipped = NoCursor => Here = entry
C16_ZeroConsumption == []C16_Returned /\ [][C16_Step]_vars
C16_Witness ==
  /\ ZeroLoop
  /\ pc = "for"
  /\ i >= 1
  /\ position < source_length
  /\ skipped = Here
  /\ entry = Here


(* C17: the kind, length and flags of a token returned for a matched rule  *)
(* are those the rule's matcher and action write on a freshly zeroed       *)
(* token: nothing written by a matcher that failed, or for a token         *)
(* discarded earlier in the call, shows in it.                             *)
C17_FreshToken ==
  GotMatch =>
    LET fresh == Attempt(rules[won.rule + 1], won.origin, won.origin, ZeroToken).tok
    IN  /\ ret.token.kind = fresh.kind
        /\ ret.token.length = fresh.length
        /\ ret.token.flags = fresh.flags

(* C18: every token lexer_next_token returns on an engine carries the      *)
(* engine's current filename.                                              *)
C18_TokenFilename ==
  GotToken => ret.token.filename = filename


(* C19: in every state 0 <= position <= source_length, line >= 1 and       *)
(* column >= 1; lexer_advance called with the cursor at source_length      *)
(* changes nothing; lexer_is_eof is true exactly when the cursor is at or  *)
(* past source_length.                                                     *)
C19_State ==
  /\ position >= 0
  /\ position <= source_length
  /\ source_length <= Len(source)
  /\ line >= 1
  /\ column >= 1
  /\ lexer_is_eof <=> AtEnd
C19_Step ==
  (pc = "idle" /\ op'.name = "lexer_advance" /\ position = source_length) =>
     UNCHANGED <<engine, pc, frame>>
C19_CursorInRange == []C19_State /\ [][C19_Step]_vars
C19_Witness ==
  /\ pc = "idle"
  /\ op.name = "lexer_advance"
  /\ op.from = source_length
  /\ position = source_length
  /\ source_length > 1
  /\ line > 1
  /\ Len(rules) > 0
====
